---- MODULE Spec2Model ----
(***************************************************************************)
(* Model of the logstash adapter of logspout (src/logstash.go): the        *)
(* multi-line coalescing loop Adapter.Stream, its helpers MergeMessages,   *)
(* GetTags, IsMultiline and GetHostname, and the transport writes.         *)
(*                                                                         *)
(* Strings are sequences of one-character strings, so that joining,        *)
(* splitting, trimming and the regular expressions are computed.           *)
(***************************************************************************)
EXTENDS Integers, Sequences, FiniteSets, TLC

(* ---------------------------- bounds ----------------------------------- *)

\* Number of records the host sends before it stops.
MaxRecords == 4

(* --------------------------- characters -------------------------------- *)

\* The class \s of Go's regexp (RE2): [\t\n\f\r ].
Whitespace == {" ", "\t", "\n", "\f", "\r"}

\* The class \d of Go's regexp.
Digits == {"0", "1", "2", "3", "4", "5", "6", "7", "8", "9"}

\* s[i..j] of a character sequence; empty when the range is empty.
Sub(s, i, j) == IF j < i THEN <<>> ELSE SubSeq(s, i, j)

\* TRUE iff the literal lit occurs in s starting at position i.
At(s, i, lit) == /\ i >= 1
                 /\ i + Len(lit) - 1 <= Len(s)
                 /\ Sub(s, i, i + Len(lit) - 1) = lit

\* TRUE iff s[i..j] is a non-empty run of digits.
DigitRun(s, i, j) == /\ i <= j
                     /\ j <= Len(s)
                     /\ \A k \in i..j : s[k] \in Digits

(* --------------------------- the patterns ------------------------------ *)

\* regexps[0] = `^\s`
MatchIndent(s) == Len(s) >= 1 /\ s[1] \in Whitespace

\* regexps[1] = `line \d+, in .+`   ("." does not match a newline)
MatchFrame(s) ==
    \E i \in 1..Len(s) : \E j \in i..Len(s) :
        /\ At(s, i, <<"l", "i", "n", "e", " ">>)
        /\ DigitRun(s, i + 5, j)
        /\ At(s, j + 1, <<",", " ", "i", "n", " ">>)
        /\ j + 6 <= Len(s)
        /\ s[j + 6] # "\n"

\* Faulty variant of MatchTraceback: the pattern is anchored at the start.
MatchTracebackAnchored(s) ==
    At(s, 1, <<"T", "r", "a", "c", "e", "b", "a", "c", "k", " ">>)

\* regexps[2] = `Traceback `   (not anchored)
MatchTraceback(s) ==
    \E i \in 1..Len(s) :
        At(s, i, <<"T", "r", "a", "c", "e", "b", "a", "c", "k", " ">>)

\* regexps[3] = `LINE \d+:`
MatchSQL(s) ==
    \E i \in 1..Len(s) : \E j \in i..Len(s) :
        /\ At(s, i, <<"L", "I", "N", "E", " ">>)
        /\ DigitRun(s, i + 5, j)
        /\ At(s, j + 1, <<":">>)

\* IsMultiline: true iff some pattern of regexps matches.
IsMultiline(message) ==
    \/ MatchIndent(message)
    \/ MatchFrame(message)
    \/ MatchTraceback(message)
    \/ MatchSQL(message)

(* ------------------------ string helpers ------------------------------- *)

\* strings.Join(strs, "\n")
RECURSIVE Join(_)
Join(strs) ==
    IF Len(strs) = 0 THEN <<>>
    ELSE IF Len(strs) = 1 THEN strs[1]
    ELSE strs[1] \o <<"\n">> \o Join(Tail(strs))

\* Faulty variant of MergeMessages: every line is followed by a newline.
MergeMessagesTrailing(messages) ==
    IF Len(messages) = 0 THEN <<>> ELSE Join(messages) \o <<"\n">>

\* MergeMessages joins the text of the buffered lines with "\n".
\* A buffered Message carries only its text, so a buffer is a sequence of texts.
MergeMessages(messages) == Join(messages)

\* Faulty variant of GetTags: the comparison is >= 1 instead of > 1.
GetTagsAtLeastOne(messages) ==
    IF Len(messages) >= 1 THEN <<"multiline">> ELSE <<"">>

\* GetTags: ["multiline"] for more than one line, else [""].
GetTags(messages) ==
    IF Len(messages) > 1 THEN <<"multiline">> ELSE <<"">>

\* Faulty variant of TrimLeftSlash: "/" is cut from both ends (strings.Trim).
RECURSIVE TrimSlash(_)
TrimSlash(name) ==
    IF Len(name) >= 1 /\ name[1] = "/" THEN TrimSlash(Tail(name))
    ELSE IF Len(name) >= 1 /\ name[Len(name)] = "/"
    THEN TrimSlash(SubSeq(name, 1, Len(name) - 1))
    ELSE name

\* strings.TrimLeft(name, "/")
RECURSIVE TrimLeftSlash(_)
TrimLeftSlash(name) ==
    IF Len(name) >= 1 /\ name[1] = "/" THEN TrimLeftSlash(Tail(name)) ELSE name

\* GetHostname: $HOSTNAME when non-empty, else os.Hostname(), whose result
\* on error is the empty string.
GetHostname(env, osName, osErr) ==
    IF env = "" THEN (IF osErr THEN "" ELSE osName) ELSE env

(* ------------------------ inputs of the model -------------------------- *)

LnA      == <<"A">>
LnB      == <<"B">>
LnIndent == <<" ", "x">>

\* The line texts the host delivers.
Lines == {LnA, LnB, LnIndent}

Sources == {"stdout", "stderr"}

\* The containers of the host: router.Message.Container.
ContainerA == [ID |-> "a", Name |-> <<"/", "s", "v", "c">>,
               Config |-> [Image |-> "img", Hostname |-> "h"]]
ContainerB == [ID |-> "b",
               Name |-> <<"/", "/", "s", "v", "c", "/", "a", "p", "p", "/">>,
               Config |-> [Image |-> "img2", Hostname |-> "h2"]]
Containers == {ContainerA, ContainerB}

ContainerIDs == {c.ID : c \in Containers}

\* router.Message
Records == [Data : Lines, Source : Sources, Container : Containers]

(* ------------------------------ state ---------------------------------- *)

VARIABLES
    pc,         \* position of Stream: "start", "loop" or "done"
    logstream,  \* records in the inbound channel, oldest first
    closed,     \* the host has closed the inbound channel
    queue,      \* map container id -> buffered line texts (absent keys absent)
    hostname,   \* the host identity resolved at the start of Stream
    written,    \* payloads handed to conn.Write so far, in order
    err,        \* result of this iteration's conn.Write: "none", "nil", "error"
    taken,      \* the loop variable m: the record of the latest iteration
    received,   \* container id and data of the records taken so far, in order
    arg,        \* arguments of a direct call of IsMultiline or NewAdapter
    ret         \* what that call returned

vars == <<pc, logstream, closed, queue, hostname, written, err, taken, received,
          arg, ret>>

\* No direct call is being made, or it has not returned yet.
NoCall == [fn |-> "none"]

\* The loop variable before the first iteration.
NoRecord == [Data |-> <<>>, Source |-> "", Container |-> [ID |-> ""]]

\* queue[id], with Go's zero value (the nil slice) for an absent key.
QueueGet(q, id) == IF id \in DOMAIN q THEN q[id] ELSE <<>>

\* Faulty variant of QueuePut: the map is replaced by one with this key only.
QueuePutAlone(q, id, messages) == [k \in {id} |-> messages]

\* queue[id] = messages
QueuePut(q, id, messages) ==
    [k \in (DOMAIN q) \cup {id} |-> IF k = id THEN messages ELSE q[k]]

\* Faulty variant of QueueKey: one buffer shared by all containers.
QueueKeyShared(m) == "a"

\* The key under which Stream keeps the buffer of record m.
QueueKey(m) == m.Container.ID

(* ------------------------ the body of the loop ------------------------- *)

\* Faulty variant of Appended: the line is put in front of the buffer.
AppendedFront(messages, raw) == <<raw>> \o messages

\* Lines 120 and 125: append(messages, rawMessage).
Appended(messages, raw) == Append(messages, raw)

\* Faulty variant of IsSeed: the test for an empty buffer is missing, so every
\* non-continuation line flushes.
IsSeedNever(q, m) == FALSE

\* Faulty variant of IsSeed: the test always succeeds, so no line ever flushes.
IsSeedAlways(q, m) == TRUE

\* Line 124: a non-continuation line finds nothing buffered.
IsSeed(q, m) == Len(QueueGet(q, QueueKey(m))) = 0

\* Faulty variant of Terminated: the arriving line is never appended.
TerminatedNoAppend(messages, raw) == messages

\* Faulty variant of Terminated: the arriving line is appended to every buffer.
TerminatedAlways(messages, raw) == Append(messages, raw)

\* Lines 132-134: a buffer of more than one line takes the arriving line too.
Terminated(messages, raw) ==
    IF Len(messages) > 1 THEN Append(messages, raw) ELSE messages

\* Faulty variant of BuildEvent: the stream is not taken from the record.
BuildEventStdout(messages, m, host) ==
    [Message  |-> MergeMessages(messages),
     Name     |-> TrimLeftSlash(m.Container.Name),
     ID       |-> m.Container.ID,
     Image    |-> m.Container.Config.Image,
     Hostname |-> m.Container.Config.Hostname,
     Stream   |-> "stdout",
     Tags     |-> GetTags(messages),
     Host     |-> host]

\* Lines 136-145: the event built from the buffer and the triggering record.
BuildEvent(messages, m, host) ==
    [Message  |-> MergeMessages(messages),
     Name     |-> TrimLeftSlash(m.Container.Name),
     ID       |-> m.Container.ID,
     Image    |-> m.Container.Config.Image,
     Hostname |-> m.Container.Config.Hostname,
     Stream   |-> m.Source,
     Tags     |-> GetTags(messages),
     Host     |-> host]

\* Faulty variant of NextBuffer: the buffer is always emptied.
NextBufferEmpty(messages, raw) == <<>>

\* Faulty variant of NextBuffer: the flushed head is kept instead of being
\* replaced by the arriving line.
NextBufferKeepOld(messages, raw) ==
    IF Len(messages) = 1 /\ ~IsMultiline(messages[1]) THEN messages ELSE <<>>

\* Lines 147-151: what stays buffered after the flush.
NextBuffer(messages, raw) ==
    IF Len(messages) = 1 /\ ~IsMultiline(messages[1]) THEN <<raw>> ELSE <<>>

\* Faulty variant of OnWriteError: the buffer flushed by the failed write is
\* put back, to be sent again.
OnWriteErrorRestore(q, before) == before

\* Lines 166-169: a failed write is logged and the loop continues; the map q
\* assigned at line 153 stands, the map from before the iteration is gone.
OnWriteError(q, before) == q

\* json.Marshal of a Message: the JSON object keyed by the struct tags.
Marshal(e) ==
    [message            |-> e.Message,
     container_name     |-> e.Name,
     container_id       |-> e.ID,
     image_name         |-> e.Image,
     container_hostname |-> e.Hostname,
     host               |-> e.Host,
     stream             |-> e.Stream,
     tags               |-> e.Tags]

(* ------------------------------ actions -------------------------------- *)

Init ==
    /\ pc = "start"
    /\ logstream = <<>>
    /\ closed = FALSE
    /\ queue = <<>>
    /\ hostname = ""
    /\ written = <<>>
    /\ err = "none"
    /\ taken = NoRecord
    /\ received = <<>>
    /\ arg = NoCall
    /\ ret = NoCall

\* The host sends one record into the channel, which holds one record in
\* flight until Stream takes it.
HostSend ==
    /\ ~closed
    /\ logstream = <<>>
    /\ Len(received) + Len(logstream) < MaxRecords
    /\ \E r \in Records : logstream' = Append(logstream, r)
    /\ UNCHANGED <<pc, closed, queue, hostname, written, err, taken, received, arg, ret>>

\* The host closes the channel.
HostClose ==
    /\ ~closed
    /\ closed' = TRUE
    /\ UNCHANGED <<pc, logstream, queue, hostname, written, err, taken, received, arg, ret>>

\* Lines 102-104: Stream creates the map and resolves the host name.
StreamStart ==
    /\ pc = "start"
    /\ pc' = "loop"
    /\ queue' = <<>>
    /\ \E env \in {"", "H"}, osErr \in BOOLEAN :
           hostname' = GetHostname(env, "oshost", osErr)
    /\ UNCHANGED <<logstream, closed, written, err, taken, received, arg, ret>>

\* Lines 106-170: one iteration of the loop on the next record m.
StreamRecord ==
    /\ pc = "loop"
    /\ logstream # <<>>
    /\ taken' = Head(logstream)
    /\ LET raw      == taken'.Data
           key      == QueueKey(taken')
           messages == QueueGet(queue, key)
       IN  /\ logstream' = Tail(logstream)
           /\ received' = Append(received, [ID |-> taken'.Container.ID, Data |-> raw])
           /\ IF IsMultiline(raw) \/ IsSeed(queue, taken')
              THEN \* lines 119-127: buffer the line, no event
                   /\ queue' = QueuePut(queue, key, Appended(messages, raw))
                   /\ written' = written
                   /\ err' = "none"
              ELSE \* lines 128-169: flush
                   LET flushed == Terminated(messages, raw)
                       final   == BuildEvent(flushed, taken', hostname)
                       stored  == QueuePut(queue, key, NextBuffer(flushed, raw))
                   IN  /\ written' = Append(written, Marshal(final))
                       /\ err' \in {"nil", "error"}
                       /\ queue' = IF err' = "error"
                                   THEN OnWriteError(stored, queue)
                                   ELSE stored
    /\ UNCHANGED <<pc, closed, hostname, arg, ret>>

\* Faulty variant of StreamExit: a buffer that still holds lines is flushed
\* when the loop ends.
StreamExitFlush ==
    /\ pc = "loop"
    /\ logstream = <<>>
    /\ closed
    /\ pc' = "done"
    /\ \/ /\ \A c \in DOMAIN queue : queue[c] = <<>>
          /\ written' = written
       \/ \E c \in DOMAIN queue :
             /\ queue[c] # <<>>
             /\ written' = Append(written,
                                  [message            |-> MergeMessages(queue[c]),
                                   container_name     |-> <<>>,
                                   container_id       |-> c,
                                   image_name         |-> "",
                                   container_hostname |-> "",
                                   host               |-> hostname,
                                   stream             |-> "",
                                   tags               |-> GetTags(queue[c])])
    /\ UNCHANGED <<logstream, closed, queue, hostname, err, taken, received, arg, ret>>

\* Line 106: the range loop ends when the channel is closed and drained.
StreamExit ==
    /\ pc = "loop"
    /\ logstream = <<>>
    /\ closed
    /\ pc' = "done"
    /\ UNCHANGED <<logstream, closed, queue, hostname, written, err, taken, received, arg, ret>>

Next ==
    \/ HostSend
    \/ HostClose
    \/ StreamStart
    \/ StreamRecord
    \/ StreamExit

Spec == Init /\ [][Next]_vars

(* ------------------- vocabulary of the properties ---------------------- *)

Last(seq) == seq[Len(seq)]

\* Position of the first "\n" of s, or 0.
FirstNewline(s) ==
    IF \E i \in 1..Len(s) : s[i] = "\n"
    THEN CHOOSE i \in 1..Len(s) : s[i] = "\n" /\ \A k \in 1..(i - 1) : s[k] # "\n"
    ELSE 0

\* The lines of a message: the text between its newlines.
RECURSIVE SplitLines(_)
SplitLines(s) ==
    LET i == FirstNewline(s)
    IN  IF i = 0 THEN <<s>>
        ELSE <<Sub(s, 1, i - 1)>> \o SplitLines(Sub(s, i + 1, Len(s)))

\* The data values received under container id c, in arrival order.
DataFor(c) ==
    LET rs == SelectSeq(received, LAMBDA r : r.ID = c)
    IN  [i \in 1..Len(rs) |-> rs[i].Data]

\* The events written with container_id c, in order.
EmittedFor(c) == SelectSeq(written, LAMBDA e : e.container_id = c)

\* The lines of a sequence of events, event after event.
RECURSIVE LinesOf(_)
LinesOf(events) ==
    IF events = <<>> THEN <<>>
    ELSE SplitLines(Head(events).message) \o LinesOf(Tail(events))

\* The first line of each event of a sequence.
HeadsOf(events) == [i \in 1..Len(events) |-> Head(SplitLines(events[i].message))]

IsPrefix(s, t) == Len(s) <= Len(t) /\ Sub(t, 1, Len(s)) = s

\* s can be obtained from t by deleting elements.
RECURSIVE IsSubseq(_, _)
IsSubseq(s, t) ==
    IF s = <<>> THEN TRUE
    ELSE IF t = <<>> THEN FALSE
    ELSE IF Head(s) = Head(t) THEN IsSubseq(Tail(s), Tail(t))
    ELSE IsSubseq(s, Tail(t))

\* This step is one iteration of the loop: Stream took the record taken'.
Took == /\ Len(received') = Len(received) + 1
        /\ Last(received') = [ID |-> taken'.Container.ID, Data |-> taken'.Data]

(* ------------------------------ claims --------------------------------- *)

\* C1: for every container id c the lines of the events emitted for c, in
\* order, are the lines received for c in arrival order with none left out:
\* what has been emitted so far is a prefix of what has been received.
C1_InOrderPartition ==
    \A c \in ContainerIDs : IsPrefix(LinesOf(EmittedFor(c)), DataFor(c))

\* C2: a non-continuation line arriving at a buffer that holds exactly one
\* line, itself a non-continuation, causes exactly one event whose message is
\* the buffered line alone with tags [""], and leaves the arriving line as the
\* whole buffer.
C2_LoneHeadFlush ==
    [][Took =>
        LET c   == taken'.Container.ID
            buf == QueueGet(queue, c)
        IN  (~IsMultiline(taken'.Data) /\ Len(buf) = 1 /\ ~IsMultiline(buf[1]))
            => /\ Len(written') = Len(written) + 1
               /\ Sub(written', 1, Len(written)) = written
               /\ Last(written').message = buf[1]
               /\ Last(written').tags = <<"">>
               /\ Last(written').container_id = c
               /\ QueueGet(queue', c) = <<taken'.Data>>]_vars

\* C2 happens: two different non-continuation lines on one container gave one
\* event with the first as message and the second as the buffer (scenario S2).
C2_Witness ==
    /\ DataFor("a") = <<LnA, LnB>>
    /\ Len(written) = 1
    /\ written[1].message = LnA
    /\ written[1].tags = <<"">>
    /\ written[1].container_name = <<"s", "v", "c">>
    /\ QueueGet(queue, "a") = <<LnB>>

\* C3: a non-continuation line arriving at a buffer of more than one line
\* causes an event whose lines are the buffered lines in order followed by the
\* arriving line, with tags ["multiline"], and leaves the buffer empty.
C3_TerminatorJoins ==
    [][Took =>
        LET c   == taken'.Container.ID
            buf == QueueGet(queue, c)
        IN  (~IsMultiline(taken'.Data) /\ Len(buf) > 1)
            => /\ Len(written') = Len(written) + 1
               /\ SplitLines(Last(written').message) = Append(buf, taken'.Data)
               /\ Last(written').tags = <<"multiline">>
               /\ Last(written').container_id = c
               /\ QueueGet(queue', c) = <<>>]_vars

\* C3 happens: head, continuation, terminator on one container gave one
\* three-line event and an empty buffer.
C3_Witness ==
    /\ DataFor("a") = <<LnA, LnIndent, LnB>>
    /\ Len(written) = 1
    /\ written[1].message = LnA \o <<"\n">> \o LnIndent \o <<"\n">> \o LnB
    /\ written[1].tags = <<"multiline">>
    /\ QueueGet(queue, "a") = <<>>

\* C4: every emitted event is tagged ["multiline"] if and only if the buffer
\* it was built from held more than one line, and [""] otherwise.
C4_TagLaw ==
    \A i \in 1..Len(written) :
        written[i].tags =
            IF Len(SplitLines(written[i].message)) > 1
            THEN <<"multiline">> ELSE <<"">>

\* C4 happens: an event of one line and an event of several lines were written.
C4_Witness ==
    /\ \E i \in 1..Len(written) : written[i].tags = <<"">>
    /\ \E i \in 1..Len(written) : written[i].tags = <<"multiline">>

\* C5: every line of an event emitted with container_id c was received in a
\* record of container c.
C5_NoLeak ==
    \A i \in 1..Len(written) :
        LET lines == SplitLines(written[i].message)
        IN  \A k \in 1..Len(lines) :
                \E j \in 1..Len(received) :
                    /\ received[j].ID = written[i].container_id
                    /\ received[j].Data = lines[k]

\* C5 happens: an event was written for a container while the other container
\* had received a line that this container never received.
C5_Witness ==
    \E i \in 1..Len(written) :
        \E j \in 1..Len(received) :
            /\ received[j].ID # written[i].container_id
            /\ \A k \in 1..Len(received) :
                   received[k].ID = written[i].container_id
                   => received[k].Data # received[j].Data
            /\ QueueGet(queue, received[j].ID) # <<>>

\* C6: for every container id the first lines of its events, in emission
\* order, arrived in that order.
C6_HeadOrder ==
    \A c \in ContainerIDs : IsSubseq(HeadsOf(EmittedFor(c)), DataFor(c))

\* C6 happens: one container has two events with different first lines.
C6_Witness ==
    \E c \in ContainerIDs :
        /\ Len(EmittedFor(c)) >= 2
        /\ HeadsOf(EmittedFor(c))[1] # HeadsOf(EmittedFor(c))[2]

\* C7: an event is written only while the record that triggers it is being
\* processed, one event for that record, appended after all earlier writes:
\* the record is a non-continuation line of the event's container whose
\* buffer was not empty and began with the event's first line.
C7_WriteOnTrigger ==
    [][written' # written =>
        /\ Took
        /\ Len(written') = Len(written) + 1
        /\ Sub(written', 1, Len(written)) = written
        /\ LET e == Last(written')
           IN  /\ e.container_id = taken'.Container.ID
               /\ ~IsMultiline(taken'.Data)
               /\ QueueGet(queue, taken'.Container.ID) # <<>>
               /\ Head(SplitLines(e.message)) = QueueGet(queue, taken'.Container.ID)[1]]_vars

\* C7 happens: records (a,A) (b,A) (a,B) (b,B) gave the event of a, then the
\* event of b (scenario S4).
C7_Witness ==
    /\ Len(received) = 4
    /\ [i \in 1..4 |-> received[i].ID] = <<"a", "b", "a", "b">>
    /\ [i \in 1..4 |-> received[i].Data] = <<LnA, LnA, LnB, LnB>>
    /\ Len(written) = 2
    /\ written[1].container_id = "a" /\ written[1].message = LnA
    /\ written[2].container_id = "b" /\ written[2].message = LnA

\* C8: once the channel is closed and drained Stream ends without writing or
\* touching the buffers, it ends only then, and nothing is written afterwards.
C8_NoFinalFlush ==
    /\ [](pc = "done" => closed /\ logstream = <<>>)
    /\ [][(closed /\ logstream = <<>>) =>
            (written' = written /\ queue' = queue /\ received' = received)]_vars
    /\ [][pc = "done" => pc' = "done"]_vars

\* C8 happens: one non-continuation record, then close: Stream has ended, the
\* line is still buffered and nothing was written (scenario S1).
C8_Witness ==
    /\ pc = "done"
    /\ Len(received) = 1
    /\ ~IsMultiline(received[1].Data)
    /\ QueueGet(queue, received[1].ID) = <<received[1].Data>>
    /\ written = <<>>

\* C9 as stated: element 0 of every non-empty buffer is a non-continuation line.
C9_HeadIsHead ==
    \A c \in DOMAIN queue : queue[c] # <<>> => ~IsMultiline(queue[c][1])

\* C9 amended: element 0 of a non-empty buffer is a non-continuation line
\* unless it is a continuation line that arrived while the buffer of its
\* container was empty; such a line stays element 0 until the buffer is flushed.
C9_HeadUnlessSeeded ==
    [][\A c \in ContainerIDs :
        LET old == QueueGet(queue, c)
            new == QueueGet(queue', c)
        IN  (new # <<>> /\ IsMultiline(new[1]))
            => \/ old # <<>> /\ new[1] = old[1]
               \/ /\ old = <<>>
                  /\ Took
                  /\ taken'.Container.ID = c
                  /\ new = <<taken'.Data>>]_vars

\* C9 happens: a buffer begins with a continuation line that arrived first and
\* has grown since.
C9_Witness ==
    \E c \in ContainerIDs :
        /\ Len(QueueGet(queue, c)) >= 2
        /\ IsMultiline(QueueGet(queue, c)[1])
        /\ DataFor(c)[1] = QueueGet(queue, c)[1]

\* C10: every element of a stored buffer at index 1 or greater is a
\* continuation line.
C10_TailIsContinuation ==
    \A c \in DOMAIN queue :
        \A i \in 2..Len(queue[c]) : IsMultiline(queue[c][i])

\* C10 happens: a buffer with a non-continuation head holds lines at index 1
\* and 2.
C10_Witness ==
    \E c \in DOMAIN queue :
        /\ Len(queue[c]) >= 3
        /\ ~IsMultiline(queue[c][1])

\* C11: a failed write does not end the stream and is not tried again: the
\* iteration makes its one write, Stream stays in the loop and can take the
\* next record, and the buffer of the container is what a successful write
\* leaves: the arriving line alone after a lone head, nothing otherwise, so
\* no line of the failed event is left to be written later.
C11_FailureSwallowed ==
    /\ [][(Took /\ err' # "none") =>
            LET c   == taken'.Container.ID
                buf == QueueGet(queue, c)
            IN  /\ pc' = "loop"
                /\ Len(written') = Len(written) + 1
                /\ QueueGet(queue', c) =
                       IF Len(buf) = 1 /\ ~IsMultiline(buf[1])
                       THEN <<taken'.Data>> ELSE <<>>]_vars
    /\ [](pc = "loop" /\ err = "error" /\ logstream # <<>> => ENABLED StreamRecord)

\* C11 happens: the write of a three-line event has failed, the buffer is
\* empty and the next record is waiting in the channel.
C11_Witness ==
    /\ err = "error"
    /\ pc = "loop"
    /\ logstream # <<>>
    /\ Len(written) = 1
    /\ Len(SplitLines(written[1].message)) = 3
    /\ QueueGet(queue, taken.Container.ID) = <<>>

\* The lengths of the lines of a sequence, added up.
RECURSIVE TotalLen(_)
TotalLen(lines) ==
    IF lines = <<>> THEN 0 ELSE Len(Head(lines)) + TotalLen(Tail(lines))

\* Where line i begins in the join of lines: after the i-1 lines before it
\* and one separator for each of them.
Offset(lines, i) == TotalLen(Sub(lines, 1, i - 1)) + (i - 1)

\* C12: the message of an event is the lines of the flushed buffer l1..lk
\* (the buffer, with the arriving line when it held more than one line) in
\* order with exactly one newline between consecutive lines: k-1 separators,
\* none in front and none at the end.
C12_JoinLaw ==
    [][written' # written =>
        LET buf == QueueGet(queue, taken'.Container.ID)
            fl  == IF Len(buf) > 1 THEN Append(buf, taken'.Data) ELSE buf
            k   == Len(fl)
            msg == Last(written').message
        IN  /\ k >= 1
            /\ Len(msg) = TotalLen(fl) + (k - 1)
            /\ \A i \in 1..k :
                   Sub(msg, Offset(fl, i) + 1, Offset(fl, i) + Len(fl[i])) = fl[i]
            /\ \A i \in 1..(k - 1) :
                   msg[Offset(fl, i) + Len(fl[i]) + 1] = "\n"]_vars

\* C12 happens: a buffer of three lines was flushed with the arriving line:
\* four lines, three separators.
C12_Witness ==
    \E i \in 1..Len(written) :
        written[i].message =
            LnA \o <<"\n">> \o LnIndent \o <<"\n">> \o LnIndent \o <<"\n">> \o LnB

(* ----------------- direct calls of the pure functions ------------------ *)

\* Beginnings, middles and ends of the texts given to IsMultiline.
Prefixes == {<<>>, <<"x">>, <<" ">>, <<"\t">>}

Cores == {
    <<"A">>,
    <<"T", "r", "a", "c", "e", "b", "a", "c", "k", " ">>,
    <<"T", "r", "a", "c", "e", "b", "a", "c", "k">>,
    <<"l", "i", "n", "e", " ", "1", "2", ",", " ", "i", "n", " ", "f">>,
    <<"l", "i", "n", "e", " ", "1", ",", " ", "i", "n", " ">>,
    <<"l", "i", "n", "e", " ", ",", " ", "i", "n", " ", "f">>,
    <<"L", "I", "N", "E", " ", "1", ":">>,
    <<"L", "I", "N", "E", " ", "1", "2", ":">>,
    <<"L", "I", "N", "E", " ", ":">>,
    <<"L", "I", "N", "E", " ", "1">> }

Suffixes == {<<>>, <<"y">>, <<"\n">>}

\* The texts given to IsMultiline.
ClassifierInputs == {p \o c \o x : p \in Prefixes, c \in Cores, x \in Suffixes}

\* route.Adapter: the adapter name, with the transport after a "+" if any.
LOGSTASH == <<"l", "o", "g", "s", "t", "a", "s", "h">>
UDP == <<"u", "d", "p">>
TCP == <<"t", "c", "p">>
BOGUS == <<"b", "o", "g", "u", "s">>

RouteAdapters == {LOGSTASH, LOGSTASH \o <<"+">> \o TCP, LOGSTASH \o <<"+">> \o UDP,
                  LOGSTASH \o <<"+">> \o BOGUS}

\* router.Route, as far as NewAdapter reads it.
Routes == [Adapter : RouteAdapters, Address : {"logs:5000", "down:5000"}]

\* What router.AdapterTransports may hold: the names of the registered transports.
Registries == SUBSET {UDP, TCP}

\* What transport.Dial may return.
DialResults == {[conn |-> "conn", err |-> "nil"],
                [conn |-> "nil", err |-> "connection refused"],
                [conn |-> "nil", err |-> "no such host"]}

\* Position of the first "+" of s at or after position from, or 0.
FirstPlus(s, from) ==
    IF \E i \in from..Len(s) : s[i] = "+"
    THEN CHOOSE i \in from..Len(s) : s[i] = "+" /\ \A k \in from..(i - 1) : s[k] # "+"
    ELSE 0

\* route.AdapterTransport(dfault) of the router: the second part of
\* route.Adapter split at "+", or dfault when there is no "+".
AdapterTransport(adapter, dfault) ==
    LET i == FirstPlus(adapter, 1)
        j == IF i = 0 THEN 0 ELSE FirstPlus(adapter, i + 1)
    IN  IF i = 0 THEN dfault
        ELSE IF j = 0 THEN Sub(adapter, i + 1, Len(adapter))
        ELSE Sub(adapter, i + 1, j - 1)

\* errors.New("unable to find adapter: " + adapter)
UnableToFind(adapter) == <<"u", "n", "a", "b", "l", "e", " ", "t", "o", " ", "f", "i", "n", "d", " ", "a", "d", "a", "p", "t", "e", "r", ":", " ">> \o adapter

\* Faulty variant of NewAdapter: the error of Dial is not looked at.
NewAdapterIgnoresDial(route, registry, dial) ==
    IF AdapterTransport(route.Adapter, UDP) \notin registry
    THEN [adapter |-> <<>>, err |-> UnableToFind(route.Adapter)]
    ELSE [adapter |-> <<[route |-> route, conn |-> dial.conn]>>, err |-> "nil"]

\* NewAdapter: look the transport up (default "udp"), dial, build the Adapter.
\* The returned pointer is a sequence: empty for nil, else the one Adapter.
NewAdapter(route, registry, dial) ==
    IF AdapterTransport(route.Adapter, UDP) \notin registry
    THEN [adapter |-> <<>>, err |-> UnableToFind(route.Adapter)]
    ELSE IF dial.err # "nil"
    THEN [adapter |-> <<>>, err |-> dial.err]
    ELSE [adapter |-> <<[route |-> route, conn |-> dial.conn]>>, err |-> "nil"]

\* A call of IsMultiline or of NewAdapter is about to be made; Stream is not
\* running.
InitCalls ==
    /\ pc = "start"
    /\ logstream = <<>>
    /\ closed = FALSE
    /\ queue = <<>>
    /\ hostname = ""
    /\ written = <<>>
    /\ err = "none"
    /\ taken = NoRecord
    /\ received = <<>>
    /\ ret = NoCall
    /\ \/ arg \in [fn : {"IsMultiline"}, message : ClassifierInputs]
       \/ arg \in [fn : {"NewAdapter"}, route : Routes, registry : Registries,
                   dial : DialResults]

\* IsMultiline(message) returns.
CallIsMultiline ==
    /\ arg.fn = "IsMultiline"
    /\ ret = NoCall
    /\ ret' = [fn |-> "IsMultiline", value |-> IsMultiline(arg.message)]
    /\ UNCHANGED <<pc, logstream, closed, queue, hostname, written, err, taken,
                   received, arg>>

\* NewAdapter(route) returns.
CallNewAdapter ==
    /\ arg.fn = "NewAdapter"
    /\ ret = NoCall
    /\ ret' = [fn |-> "NewAdapter",
               value |-> NewAdapter(arg.route, arg.registry, arg.dial)]
    /\ UNCHANGED <<pc, logstream, closed, queue, hostname, written, err, taken,
                   received, arg>>

NextCalls ==
    \/ CallIsMultiline
    \/ CallNewAdapter

SpecCalls == InitCalls /\ [][NextCalls]_vars

(* ---------------------- claims on the direct calls --------------------- *)

\* s[i..j], or the empty sequence when that is not inside s.
Seg(s, i, j) == IF 1 <= i /\ i <= j /\ j <= Len(s) THEN SubSeq(s, i, j) ELSE <<>>

\* The non-empty lit occurs somewhere in s.
Contains(s, lit) == \E i \in 1..Len(s) : Seg(s, i, i + Len(lit) - 1) = lit

\* s has, somewhere, word, then one or more digits, then rest.  The set is of
\* the positions just after rest.
AfterNumbered(s, word, rest) ==
    {e \in 1..(Len(s) + 1) :
        \E b \in 1..Len(s), n \in 1..Len(s) :
            /\ Seg(s, b, b + Len(word) - 1) = word
            /\ \A k \in (b + Len(word))..(b + Len(word) + n - 1) :
                   k <= Len(s) /\ s[k] \in Digits
            /\ Seg(s, b + Len(word) + n, b + Len(word) + n + Len(rest) - 1) = rest
            /\ e = b + Len(word) + n + Len(rest)}

\* The four cases of C13 as stated, with "Traceback " at the beginning only.
\* The text after "in " is text of the line: it begins with a character that
\* is not a newline.
C13_StatedClass(s) ==
    \/ (s # <<>> /\ Head(s) \in Whitespace)
    \/ \E e \in AfterNumbered(s, <<"l", "i", "n", "e", " ">>, <<",", " ", "i", "n", " ">>)  :
           e <= Len(s) /\ s[e] # "\n"
    \/ Seg(s, 1, 10) = <<"T", "r", "a", "c", "e", "b", "a", "c", "k", " ">>
    \/ AfterNumbered(s, <<"L", "I", "N", "E", " ">>, <<":">>) # {}

\* C13 as stated: IsMultiline returns true exactly in the four cases, and
\* false when "Traceback " occurs only after the first character.
C13_ClassifierAsStated ==
    (ret # NoCall /\ ret.fn = "IsMultiline")
    => ret.value = C13_StatedClass(arg.message)

\* C13 amended: IsMultiline returns true if and only if the line begins with
\* a whitespace character, or contains `line <digits>, in <non-empty text>`,
\* or contains `Traceback ` at any position, or contains `LINE <digits>:`; it
\* returns false for every other line.
C13_Classifier ==
    (ret # NoCall /\ ret.fn = "IsMultiline")
    => LET s == arg.message
       IN  ret.value =
               \/ (s # <<>> /\ Head(s) \in Whitespace)
               \/ \E e \in AfterNumbered(s, <<"l", "i", "n", "e", " ">>, <<",", " ", "i", "n", " ">>) :
                      e <= Len(s) /\ s[e] # "\n"
               \/ Contains(s, <<"T", "r", "a", "c", "e", "b", "a", "c", "k", " ">>)
               \/ AfterNumbered(s, <<"L", "I", "N", "E", " ">>, <<":">>) # {}

\* C13 happens: IsMultiline has returned true on a line that has "Traceback "
\* after its first character and matches nothing else.
C13_Witness ==
    /\ ret # NoCall
    /\ ret.fn = "IsMultiline"
    /\ arg.message = <<"x">> \o <<"T", "r", "a", "c", "e", "b", "a", "c", "k", " ">>
    /\ ret.value = TRUE

\* C15: NewAdapter returns no adapter and the error "unable to find adapter: "
\* followed by route.Adapter when the transport named by the route ("udp"
\* when it names none) is not registered; no adapter and the error of Dial
\* when the dial fails; and otherwise an adapter holding the route and the
\* dialed connection, with a nil error.
C15_Factory ==
    (ret # NoCall /\ ret.fn = "NewAdapter")
    => LET a    == arg.route.Adapter
           name == IF a = <<"l", "o", "g", "s", "t", "a", "s", "h">> THEN <<"u", "d", "p">>
                   ELSE Seg(a, Len(<<"l", "o", "g", "s", "t", "a", "s", "h">>) + 2, Len(a))
           r    == ret.value
       IN  /\ name \notin arg.registry
              => r.adapter = <<>> /\ r.err = <<"u", "n", "a", "b", "l", "e", " ", "t", "o", " ", "f", "i", "n", "d", " ", "a", "d", "a", "p", "t", "e", "r", ":", " ">> \o a
           /\ (name \in arg.registry /\ arg.dial.err # "nil")
              => r.adapter = <<>> /\ r.err = arg.dial.err
           /\ (name \in arg.registry /\ arg.dial.err = "nil")
              => /\ r.err = "nil"
                 /\ r.adapter = <<[route |-> arg.route, conn |-> arg.dial.conn]>>

\* C15 happens: a route that names no transport got an adapter through the
\* registered "udp".
C15_Witness ==
    /\ ret # NoCall
    /\ ret.fn = "NewAdapter"
    /\ arg.route.Adapter = <<"l", "o", "g", "s", "t", "a", "s", "h">>
    /\ arg.registry = {<<"u", "d", "p">>}
    /\ arg.dial.err = "nil"
    /\ ret.value.err = "nil"
    /\ ret.value.adapter = <<[route |-> arg.route, conn |-> "conn"]>>

(* ------------------- claims on the stream, continued ------------------- *)

\* The name of the container with id c, as the host delivers it.
NameOf(c) == (CHOOSE k \in Containers : k.ID = c).Name

C16_WriteIffFlush ==
    [][Took =>
        LET c   == taken'.Container.ID
            buf == QueueGet(queue, c)
        IN  IF ~IsMultiline(taken'.Data) /\ buf # <<>>
            THEN /\ Len(written') = Len(written) + 1
                 /\ Sub(written', 1, Len(written)) = written
            ELSE /\ written' = written
                 /\ QueueGet(queue', c) = Append(buf, taken'.Data)]_vars

\* C16 happens: of four records on one container the second and the fourth
\* wrote, the first (empty buffer) and the third (empty buffer again, after
\* the flush of a continuation head) did not.
C16_Witness ==
    /\ DataFor("b") = <<LnIndent, LnA, LnB, LnA>>
    /\ Len(written) = 2
    /\ written[1].message = LnIndent
    /\ written[2].message = LnB
    /\ QueueGet(queue, "b") = <<LnA>>

\* C17: container_id, container_name, image_name, container_hostname and
\* stream of an event are those of the record that triggered the flush.
C17_MetadataOfTrigger ==
    [][written' # written =>
        LET e == Last(written')
            k == taken'.Container
        IN  /\ e.container_id = k.ID
            /\ e.image_name = k.Config.Image
            /\ e.container_hostname = k.Config.Hostname
            /\ e.stream = taken'.Source
            /\ Len(e.container_name) <= Len(k.Name)
            /\ e.container_name =
                   Sub(k.Name, Len(k.Name) - Len(e.container_name) + 1, Len(k.Name))]_vars

\* C17 happens: three lone heads A, B, A on one container.  The first event
\* (message A) has the stream of the record that brought B, stdout; the
\* second event (message B) has the stream of the third record, stderr, not
\* the stdout of the record that brought B.
C17_Witness ==
    /\ [i \in 1..Len(received) |-> received[i].ID] = <<"a", "a", "a">>
    /\ DataFor("a") = <<LnA, LnB, LnA>>
    /\ Len(written) = 2
    /\ written[1].message = LnA /\ written[1].stream = "stdout"
    /\ written[2].message = LnB /\ written[2].stream = "stderr"
    /\ taken.Source = "stderr"

\* C18: after each record every line received for a container is in exactly
\* one event written for it or in its buffer: the lines of its events followed
\* by its buffer are the lines received for it.
C18_NoLineLost ==
    \A c \in ContainerIDs :
        LinesOf(EmittedFor(c)) \o QueueGet(queue, c) = DataFor(c)

\* C19: no event has exactly two lines: an event has one line and tags [""],
\* or at least three lines and tags ["multiline"], and then its last line is a
\* non-continuation line and the lines between the first and the last are
\* continuation lines.
C19_OneOrThreeLines ==
    \A i \in 1..Len(written) :
        LET lines == SplitLines(written[i].message)
            k     == Len(lines)
        IN  /\ k # 2
            /\ k = 1 => written[i].tags = <<"">>
            /\ k >= 3 =>
                   /\ written[i].tags = <<"multiline">>
                   /\ ~IsMultiline(lines[k])
                   /\ \A j \in 2..(k - 1) : IsMultiline(lines[j])

\* C19 happens: an event of one line and an event of three lines were written.
C19_Witness ==
    /\ \E i \in 1..Len(written) : Len(SplitLines(written[i].message)) = 1
    /\ \E i \in 1..Len(written) : Len(SplitLines(written[i].message)) = 3

\* C20: an iteration on a record of container c leaves the buffer of every
\* other container id as it was, whatever the iteration does and whether or
\* not its write fails.
C20_OtherBuffersKept ==
    [][Took =>
        \A c \in ContainerIDs \ {taken'.Container.ID} :
            /\ QueueGet(queue', c) = QueueGet(queue, c)
            /\ c \in DOMAIN queue => c \in DOMAIN queue']_vars

\* C20 happens: a flush for one container has failed while the other
\* container holds two buffered lines.
C20_Witness ==
    /\ err = "error"
    /\ \E c \in ContainerIDs \ {taken.Container.ID} : Len(QueueGet(queue, c)) = 2

====
